---- MODULE Spec2Model ----
(***************************************************************************)
(* bmon: one run of main() in src/src/main.rs.  Args::parse, Machine::new  *)
(* (monitoring session, device loop, ps per resident pid, nproc, free),    *)
(* then display_gpu_stats and display_cpu_stats.  An unwrap()/expect() on  *)
(* a failed call is a panic: the run stops where it is.                    *)
(***************************************************************************)
EXTENDS Integers, Sequences, FiniteSets, TLC

\* ------------------------------------------------------------------ bounds

\* Largest device count nvml.device_count() answers in the model.
MaxGpus == 2

\* Largest fan count device.num_fans() answers in the model.
MaxFans == 3

\* ------------------------------------------------------- program constants

\* truncate_width of the process table, verbose and not (main.rs:282).
VerboseWidth == 75
TerseWidth == 20

\* ------------------------------------------------------------------ inputs

\* Resident compute pid lists a device reports (running_compute_processes).
PidLists == {<<>>, <<1>>, <<2, 1>>, <<3>>}

\* ThrottleReasons flags in declaration order (the order {:?} prints them).
ThrottleFlags == <<"GPU_IDLE", "SW_POWER_CAP", "HW_SLOWDOWN">>

\* Throttle-reason sets a device reports.
ThrottleSets == {{}, {"SW_POWER_CAP"}, {"GPU_IDLE", "HW_SLOWDOWN"}}

\* Fan sensor readings (percent) a fan answers.
FanSpeeds == {0, 1, 2, 3, 7, 33, 50, 99, 100}

\* Fan reading lists of the devices of a whole run.
RunFans == {<<30, 61>>}

\* The command line ps prints for a live pid.
PsCommand(pid) ==
    CASE pid = 1 -> "python train.py"
      [] pid = 2 -> "python   -m torch.distributed.run train.py"
      [] OTHER   -> "/usr/bin/python3 /home/alice/projects/experiments/run_training.py --config configs/large.yaml --epochs 100"

\* stdout of `ps -p pid -o pid=,user=,%cpu=,%mem=,etime=,command=`:
\* one line for a live process, nothing for one that has exited.
PsStdout(pid, alive) ==
    IF alive
    THEN "   " \o ToString(pid) \o " alice    12.5  3.1    01:02:03 " \o PsCommand(pid) \o "\n"
    ELSE ""

\* What running a utility gives: whether it could be spawned, and its stdout.
NprocResults ==
    { [spawned |-> FALSE, out |-> ""],
      [spawned |-> TRUE, out |-> ""],
      [spawned |-> TRUE, out |-> "8\n"] }

FreeResults ==
    { [spawned |-> FALSE, out |-> ""],
      [spawned |-> TRUE, out |-> "total used free\n"],
      [spawned |-> TRUE,
       out |-> "total used free shared buff/cache available\nMem: 31Gi 4.0Gi 20Gi 1.0Gi 7.0Gi 26Gi\nSwap: 2.0Gi 0B 2.0Gi\n"] }

\* ------------------------------------------------------------- pure helpers

IsSpace(c) == c \in {" ", "\n", "\t"}

CharAt(s, i) == SubSeq(s, i, i)

\* str::split_whitespace: the maximal runs of non-whitespace, in order.
\* SplitFrom(s, i) is the runs that start at position i or later.
RECURSIVE SplitFrom(_, _)
SplitFrom(s, i) ==
    LET n == Len(s)
    IN IF \A j \in i..n : IsSpace(CharAt(s, j))
       THEN <<>>
       ELSE LET st == CHOOSE j \in i..n :
                         /\ ~IsSpace(CharAt(s, j))
                         /\ \A k \in i..(j - 1) : IsSpace(CharAt(s, k))
                en == CHOOSE j \in st..n :
                         /\ \A k \in st..j : ~IsSpace(CharAt(s, k))
                         /\ (j = n \/ IsSpace(CharAt(s, j + 1)))
            IN << SubSeq(s, st, en) >> \o SplitFrom(s, en + 1)

split_whitespace(s) == SplitFrom(s, 1)

\* Iterator::nth(n) on the tokens: zero-based, None past the end.
HasNth(tokens, n) == n + 1 <= Len(tokens)
Nth(tokens, n) == tokens[n + 1]

\* [a, b, c].join(sep)
RECURSIVE Join(_, _)
Join(words, sep) ==
    IF Len(words) = 0 THEN ""
    ELSE IF Len(words) = 1 THEN words[1]
    ELSE words[1] \o sep \o Join(Tail(words), sep)

\* pids.map(to_string)
RECURSIVE PidStrings(_)
PidStrings(pids) ==
    IF pids = <<>> THEN <<>> ELSE <<ToString(Head(pids))>> \o PidStrings(Tail(pids))

\* ---------------------------------------------------------------- GPUStats

\* device.num_fans(), then device.fan_speed(i) for i in 0..n_fans: the fan
\* indices asked for, in order.
FanRequests(speeds) == [i \in 1..Len(speeds) |-> i - 1]

\* sum_fans after the loop `for i in 0..n_fans { sum_fans += fan_speed(i) }`.
RECURSIVE SumFans(_, _)
SumFans(speeds, n) ==
    IF n = 0 THEN 0 ELSE SumFans(speeds, n - 1) + speeds[n]

\* FanAverage with the quotient rounded to the nearest whole number.
FanAverage_nearest(sum_fans, n_fans) == (2 * sum_fans + n_fans) \div (2 * n_fans)

\* sum_fans / n_fans on u32: the quotient, truncated.
FanAverage(sum_fans, n_fans) == sum_fans \div n_fans

\* The fan field of GPUStats.
FanField(speeds) ==
    IF Len(speeds) = 0
    THEN "N/A"
    ELSE ToString(FanAverage(SumFans(speeds, Len(speeds)), Len(speeds))) \o "%"

\* GPUStats::from_nvml_device on a device that answers every query.  The
\* readings the model does not vary are those of one fixed device.
from_nvml_device(i, dev) ==
    [ idx |-> i,
      name |-> "NVIDIA GeForce RTX 3090",
      temp |-> "45C",
      power |-> "150W/350W",
      utilizations |-> "GPU 97% VRAM 41%",
      memory |-> "8.00GB/24.00GB",
      capability |-> "8.6",
      cores |-> 10496,
      fan |-> FanField(dev.fans),
      display |-> "None",
      throttling |-> dev.throttling,
      compute_process_pids |-> dev.pids,
      processes |-> Join(PidStrings(dev.pids), ", ") ]

\* What reading one device gives: a query that fails (every one is
\* unwrapped), or the device's readings.
DeviceResults ==
    { [ok |-> FALSE, pids |-> <<>>, throttling |-> {}, fans |-> <<>>] }
    \cup [ok : {TRUE}, pids : PidLists, throttling : ThrottleSets, fans : RunFans]

\* ------------------------------------------------------------ ProcessStats

\* The command field: every word from the 5th on, each followed by a space.
RECURSIVE CommandFrom(_, _)
CommandFrom(tokens, i) ==
    IF i > Len(tokens) THEN "" ELSE tokens[i] \o " " \o CommandFrom(tokens, i + 1)

\* Whether ProcessStats::from_pid gets through its unwraps on this stdout:
\* nth(1) .. nth(4) must all exist.
from_pid_ok(ps_output) == HasNth(split_whitespace(ps_output), 4)

\* ProcessStats::from_pid on a stdout it can parse.
from_pid(pid, ps_output) ==
    LET tokens == split_whitespace(ps_output)
    IN [ pid |-> pid,
         user |-> Nth(tokens, 1),
         utilizations |-> "CPU " \o Nth(tokens, 2) \o "% MEM " \o Nth(tokens, 3) \o "%",
         elapsed |-> Nth(tokens, 4),
         command |-> CommandFrom(tokens, 6) ]

\* What running ps for a pid gives.
PsResults(pid) ==
    { [spawned |-> FALSE, out |-> ""],
      [spawned |-> TRUE, out |-> PsStdout(pid, FALSE)],
      [spawned |-> TRUE, out |-> PsStdout(pid, TRUE)] }

\* gpus.iter().flat_map(|gpu| gpu.compute_process_pids.clone()).collect()
RECURSIVE flat_map_pids(_)
flat_map_pids(gs) ==
    IF gs = <<>> THEN <<>>
    ELSE Head(gs).compute_process_pids \o flat_map_pids(Tail(gs))

\* ------------------------------------------------------------------- state

VARIABLES
    args,              \* Args as parsed: verbose, network, disk (gpu and cpu
                       \* are parsed too and, like these two, never read)
    pc,                \* where main() is
    nvml,              \* the monitoring session: "unopened", "open", "failed"
    num_gpus,          \* nvml.device_count()
    gpus,              \* Machine.gpus as built so far
    gpu_process_pids,  \* the pids to inspect
    processes,         \* Machine.processes as built so far
    num_cpus,          \* Machine.num_cpus
    ram_capacity,      \* Machine.ram_capacity
    calls,             \* every collector call made so far, with its outcome
    stdout,            \* what has been printed to standard output
    panic_at,          \* the unwrap()/expect() that ended the run, or ""
    fan_speeds,        \* fan unit: the readings of the device's fans
    fan,               \* fan unit: the fan field computed, or "unread"
    fan_requests       \* fan unit: the fan indices asked for

vars == << args, pc, nvml, num_gpus, gpus, gpu_process_pids, processes,
           num_cpus, ram_capacity, calls, stdout, panic_at,
           fan_speeds, fan, fan_requests >>

fanVars == << fan_speeds, fan, fan_requests >>

runVars == << args, pc, nvml, num_gpus, gpus, gpu_process_pids, processes,
              num_cpus, ram_capacity, calls, stdout, panic_at >>

Call(op, arg, res) == [op |-> op, arg |-> arg, res |-> res]

\* A failed unwrap()/expect(): the thread panics and the process exits.
Panic(site) ==
    /\ pc' = "panicked"
    /\ panic_at' = site

\* The state main() starts in, for any command line.
Init ==
    /\ args \in [verbose : BOOLEAN, network : BOOLEAN, disk : BOOLEAN]
    /\ pc = "init"
    /\ nvml = "unopened"
    /\ num_gpus = 0
    /\ gpus = <<>>
    /\ gpu_process_pids = <<>>
    /\ processes = <<>>
    /\ num_cpus = ""
    /\ ram_capacity = ""
    /\ calls = <<>>
    /\ stdout = <<>>
    /\ panic_at = ""
    /\ fan_speeds = <<>>
    /\ fan = "unread"
    /\ fan_requests = <<>>

\* ------------------------------------------------------------ Machine::new

\* NvmlInit with the failure of Nvml::init() swallowed instead of unwrapped.
NvmlInit_swallowed ==
    /\ pc = "init"
    /\ \E ok \in BOOLEAN, n \in 0..MaxGpus :
          /\ nvml' = IF ok THEN "open" ELSE "failed"
          /\ num_gpus' = n
          /\ pc' = "devices"
          /\ UNCHANGED panic_at
    /\ UNCHANGED << args, gpus, gpu_process_pids, processes, num_cpus,
                    ram_capacity, calls, stdout, fanVars >>

\* What opening the session and asking it for the versions and the device
\* count gives.
NvmlResults == {"init_error", "query_error", "ok"}

\* Nvml::init().unwrap(), the two version queries and device_count(), each
\* unwrapped.
NvmlInit ==
    /\ pc = "init"
    /\ \E r \in NvmlResults, n \in 0..MaxGpus :
          CASE r = "ok" ->
                 /\ nvml' = "open"
                 /\ num_gpus' = n
                 /\ pc' = "devices"
                 /\ UNCHANGED panic_at
            [] r = "query_error" ->
                 /\ nvml' = "open"
                 /\ Panic("nvml query")
                 /\ UNCHANGED num_gpus
            [] OTHER ->
                 /\ nvml' = "failed"
                 /\ Panic("Nvml::init")
                 /\ UNCHANGED num_gpus
    /\ UNCHANGED << args, gpus, gpu_process_pids, processes, num_cpus,
                    ram_capacity, calls, stdout, fanVars >>

\* One turn of `for i in 0..num_gpus`: device_by_index(i), from_nvml_device,
\* push.
ReadDevice ==
    /\ pc = "devices"
    /\ Len(gpus) < num_gpus
    /\ LET i == Len(gpus)
       IN \E dev \in DeviceResults :
             IF dev.ok
             THEN /\ gpus' = Append(gpus, from_nvml_device(i, dev))
                  /\ calls' = Append(calls, Call("device", i, "ok"))
                  /\ UNCHANGED << pc, panic_at >>
             ELSE /\ calls' = Append(calls, Call("device", i, "error"))
                  /\ Panic("from_nvml_device")
                  /\ UNCHANGED gpus
    /\ UNCHANGED << args, nvml, num_gpus, gpu_process_pids, processes,
                    num_cpus, ram_capacity, stdout, fanVars >>

\* CollectPids that does not wait for the device loop to end.
CollectPids_early ==
    /\ pc = "devices"
    /\ Len(gpus) >= 1
    /\ gpu_process_pids' = flat_map_pids(gpus)
    /\ pc' = "inspect"
    /\ UNCHANGED << args, nvml, num_gpus, gpus, processes, num_cpus,
                    ram_capacity, calls, stdout, panic_at, fanVars >>

\* The device loop is over: collect the pids of every device, in device order.
CollectPids ==
    /\ pc = "devices"
    /\ Len(gpus) = num_gpus
    /\ gpu_process_pids' = flat_map_pids(gpus)
    /\ pc' = "inspect"
    /\ UNCHANGED << args, nvml, num_gpus, gpus, processes, num_cpus,
                    ram_capacity, calls, stdout, panic_at, fanVars >>

\* One element of gpu_process_pids.iter().map(from_pid): run ps, parse it.
InspectPid ==
    /\ pc = "inspect"
    /\ Len(processes) < Len(gpu_process_pids)
    /\ LET pid == gpu_process_pids[Len(processes) + 1]
       IN \E ps \in PsResults(pid) :
             IF ~ps.spawned
             THEN /\ calls' = Append(calls, Call("ps", pid, "error"))
                  /\ Panic("from_pid: ps")
                  /\ UNCHANGED processes
             ELSE IF ~from_pid_ok(ps.out)
             THEN /\ calls' = Append(calls, Call("ps", pid, "gone"))
                  /\ Panic("from_pid: nth")
                  /\ UNCHANGED processes
             ELSE /\ calls' = Append(calls, Call("ps", pid, "ok"))
                  /\ processes' = Append(processes, from_pid(pid, ps.out))
                  /\ UNCHANGED << pc, panic_at >>
    /\ UNCHANGED << args, nvml, num_gpus, gpus, gpu_process_pids, num_cpus,
                    ram_capacity, stdout, fanVars >>

\* String::strip_suffix('\n'): Some(rest) only when the string ends in \n.
EndsWithNewline(s) == Len(s) > 0 /\ SubSeq(s, Len(s), Len(s)) = "\n"
strip_suffix(s) == SubSeq(s, 1, Len(s) - 1)

\* nproc, once every pid is inspected.
Nproc ==
    /\ pc = "inspect"
    /\ Len(processes) = Len(gpu_process_pids)
    /\ \E r \in NprocResults :
          IF ~r.spawned
          THEN /\ calls' = Append(calls, Call("nproc", 0, "error"))
               /\ Panic("nproc")
               /\ UNCHANGED num_cpus
          ELSE IF ~EndsWithNewline(r.out)
          THEN /\ calls' = Append(calls, Call("nproc", 0, "unparsed"))
               /\ Panic("nproc: strip_suffix")
               /\ UNCHANGED num_cpus
          ELSE /\ calls' = Append(calls, Call("nproc", 0, "ok"))
               /\ num_cpus' = strip_suffix(r.out)
               /\ pc' = "free"
               /\ UNCHANGED panic_at
    /\ UNCHANGED << args, nvml, num_gpus, gpus, gpu_process_pids, processes,
                    ram_capacity, stdout, fanVars >>

\* free -h, then the 8th token of its output; Machine is built.
Free ==
    /\ pc = "free"
    /\ \E r \in FreeResults :
          IF ~r.spawned
          THEN /\ calls' = Append(calls, Call("free", 0, "error"))
               /\ Panic("free")
               /\ UNCHANGED ram_capacity
          ELSE IF ~HasNth(split_whitespace(r.out), 7)
          THEN /\ calls' = Append(calls, Call("free", 0, "unparsed"))
               /\ Panic("free: nth")
               /\ UNCHANGED ram_capacity
          ELSE /\ calls' = Append(calls, Call("free", 0, "ok"))
               /\ ram_capacity' = Nth(split_whitespace(r.out), 7)
               /\ pc' = "display_gpu"
               /\ UNCHANGED panic_at
    /\ UNCHANGED << args, nvml, num_gpus, gpus, gpu_process_pids, processes,
                    num_cpus, stdout, fanVars >>

\* ------------------------------------------------------------------ tables

\* Table::new(records): the header row, then one row per record.
GpuHeader ==
    << "IDX", "NAME", "TEMP", "POWER", "UTILIZATIONS", "MEMORY",
       "CAPABILITY", "CORES", "FAN", "DISPLAY", "PROCESSES" >>

GpuRow(g) ==
    << ToString(g.idx), g.name, g.temp, g.power, g.utilizations, g.memory,
       g.capability, ToString(g.cores), g.fan, g.display, g.processes >>

ProcessHeader == << "PID", "USER", "UTILIZATIONS", "ELAPSED", "COMMAND" >>

ProcessRow(p) == << ToString(p.pid), p.user, p.utilizations, p.elapsed, p.command >>

TableNew(header, rows) == << header >> \o rows

\* The positions of a row other than position j, in order.
RECURSIVE WithoutAt(_, _)
WithoutAt(row, j) ==
    IF row = <<>> THEN <<>>
    ELSE IF j = 1 THEN Tail(row)
    ELSE << Head(row) >> \o WithoutAt(Tail(row), j - 1)

\* Disable::column(ByColumnName::new(name)): drop the column whose cell in the
\* first row is `name`, if there is one.
DisableColumn(table, name) ==
    IF table = <<>> \/ ~(\E j \in DOMAIN table[1] : table[1][j] = name)
    THEN table
    ELSE LET j == CHOOSE k \in DOMAIN table[1] : table[1][k] = name
         IN [r \in DOMAIN table |-> WithoutAt(table[r], j)]

\* Disable::row(Rows::first())
DisableFirstRow(table) == IF table = <<>> THEN table ELSE Tail(table)

\* Width::truncate(width).suffix("...") on one cell: a cell wider than `width`
\* is cut so that it is `width` wide with the suffix at its end.
Truncate(cell, width) ==
    IF Len(cell) <= width THEN cell
    ELSE IF width > 3 THEN SubSeq(cell, 1, width - 3) \o "..."
    ELSE SubSeq("...", 1, width)

\* Modify::new(Rows::new(0..)).with(Width::truncate(..)): every cell.
TruncateAll(table, width) ==
    [r \in DOMAIN table |-> [c \in DOMAIN table[r] |-> Truncate(table[r][c], width)]]

\* --------------------------------------------------------------- rendering

Line(tag, text) == [tag |-> tag, text |-> text, rows |-> <<>>]
Block(tag, rows) == [tag |-> tag, text |-> "", rows |-> rows]

\* {:?} of ThrottleReasons: the set flags in declaration order, " | " between.
SetFlags(throttling) ==
    SelectSeq(ThrottleFlags, LAMBDA f : f \in throttling)

DebugFlags(throttling) == Join(SetFlags(throttling), " | ")

\* ThrottleReport without the is_empty() check.
ThrottleReport_unchecked(gpu) ==
    << Line("esc", "[31m"),
       Line("throttle", "GPU " \o ToString(gpu.idx) \o " is throttling due to: "
                         \o DebugFlags(gpu.throttling)),
       Line("esc", "[0m") >>

\* The body of `for gpu in &self.gpus` for one device: nothing when it is not
\* throttling, else the red escape, one line, the reset escape.
ThrottleReport(gpu) ==
    IF gpu.throttling = {}
    THEN <<>>
    ELSE << Line("esc", "[31m"),
            Line("throttle", "GPU " \o ToString(gpu.idx) \o " is throttling due to: "
                              \o DebugFlags(gpu.throttling)),
            Line("esc", "[0m") >>

RECURSIVE ThrottleReports(_)
ThrottleReports(gs) ==
    IF gs = <<>> THEN <<>> ELSE ThrottleReport(Head(gs)) \o ThrottleReports(Tail(gs))

\* The device table as display_gpu_stats prints it.
GpuTable(gs, verbose) ==
    LET table == TableNew(GpuHeader, [i \in DOMAIN gs |-> GpuRow(gs[i])])
    IN IF verbose
       THEN table
       ELSE DisableFirstRow(
              DisableColumn(
                DisableColumn(
                  DisableColumn(
                    DisableColumn(
                      DisableColumn(table, "CAPABILITY"),
                      "CORES"),
                    "FAN"),
                  "DISPLAY"),
                "PROCESSES"))

\* Everything Machine::display_gpu_stats writes.
display_gpu_stats(gs, verbose) ==
    << Line("gpu_header", "CUDA Version 12.0 | Driver Version 535.104.05"),
       Block("gpu_table", GpuTable(gs, verbose)) >>
    \o (IF ~verbose THEN <<>> ELSE ThrottleReports(gs))

\* TruncateWidth with one width for both verbosity levels.
TruncateWidth_terse(verbose) == TerseWidth

\* truncate_width
TruncateWidth(verbose) == IF verbose THEN VerboseWidth ELSE TerseWidth

\* The process table as display_cpu_stats prints it.
ProcessTable(ps, verbose) ==
    LET table == TruncateAll(TableNew(ProcessHeader, [i \in DOMAIN ps |-> ProcessRow(ps[i])]),
                             TruncateWidth(verbose))
    IN IF verbose THEN table ELSE DisableFirstRow(table)

\* display_cpu_stats without the is_empty() check: the table is always printed.
display_cpu_stats_unchecked(ps, cpus, ram, verbose) ==
    << Line("cpu_header", "Num CPUs " \o cpus \o " | RAM Capacity " \o ram),
       Block("process_table", ProcessTable(ps, verbose)) >>

\* Everything Machine::display_cpu_stats writes.
display_cpu_stats(ps, cpus, ram, verbose) ==
    << Line("cpu_header", "Num CPUs " \o cpus \o " | RAM Capacity " \o ram) >>
    \o (IF ps = <<>>
        THEN << Line("no_processes", "No compute processes running on GPU") >>
        ELSE << Block("process_table", ProcessTable(ps, verbose)) >>)

\* -------------------------------------------------------------------- main

\* machine.display_gpu_stats(args.verbose)
DisplayGpu ==
    /\ pc = "display_gpu"
    /\ stdout' = stdout \o display_gpu_stats(gpus, args.verbose)
    /\ pc' = "display_cpu"
    /\ UNCHANGED << args, nvml, num_gpus, gpus, gpu_process_pids, processes,
                    num_cpus, ram_capacity, calls, panic_at, fanVars >>

\* machine.display_cpu_stats(args.verbose), and main returns.
DisplayCpu ==
    /\ pc = "display_cpu"
    /\ stdout' = stdout \o display_cpu_stats(processes, num_cpus, ram_capacity, args.verbose)
    /\ pc' = "done"
    /\ UNCHANGED << args, nvml, num_gpus, gpus, gpu_process_pids, processes,
                    num_cpus, ram_capacity, calls, panic_at, fanVars >>

Next ==
    \/ NvmlInit
    \/ ReadDevice
    \/ CollectPids
    \/ InspectPid
    \/ Nproc
    \/ Free
    \/ DisplayGpu
    \/ DisplayCpu

Spec == Init /\ [][Next]_vars

\* ---------------------------------------------------------------- fan unit

\* The fan block of from_nvml_device on its own, for a device with any
\* number of fans up to MaxFans and any readings.
FanInputs == UNION { [1..n -> FanSpeeds] : n \in 0..MaxFans }

InitFan ==
    /\ args = [verbose |-> FALSE, network |-> FALSE, disk |-> FALSE]
    /\ pc = "fan"
    /\ nvml = "open"
    /\ num_gpus = 1
    /\ gpus = <<>>
    /\ gpu_process_pids = <<>>
    /\ processes = <<>>
    /\ num_cpus = ""
    /\ ram_capacity = ""
    /\ calls = <<>>
    /\ stdout = <<>>
    /\ panic_at = ""
    /\ fan_speeds \in FanInputs
    /\ fan = "unread"
    /\ fan_requests = <<>>

\* num_fans(), the fan_speed loop and the format! of the fan field.
ReadFans ==
    /\ pc = "fan"
    /\ fan = "unread"
    /\ fan' = FanField(fan_speeds)
    /\ fan_requests' = FanRequests(fan_speeds)
    /\ UNCHANGED << fan_speeds, runVars >>

NextFan == ReadFans

SpecFan == InitFan /\ [][NextFan]_vars

\* ================================================================== claims

\* The collector calls of one kind made so far, in order.
CallsOf(ops) == SelectSeq(calls, LAMBDA c : c.op \in ops)

\* The collection phase a call belongs to.
Phase(c) ==
    CASE c.op = "device" -> 1
      [] c.op = "ps"     -> 2
      [] c.op = "nproc"  -> 3
      [] OTHER           -> 4

\* The number of resident pid entries over the devices read.
RECURSIVE PidEntries(_)
PidEntries(gs) ==
    IF gs = <<>> THEN 0 ELSE Len(Head(gs).compute_process_pids) + PidEntries(Tail(gs))

\* The stdout items with one tag, in order.
Printed(tag) == SelectSeq(stdout, LAMBDA item : item.tag = tag)

\* Whether `part` occurs in `text`.
Contains(text, part) ==
    \E i \in 1..(Len(text) - Len(part) + 1) : SubSeq(text, i, i + Len(part) - 1) = part

StartsWith(text, part) ==
    Len(part) <= Len(text) /\ SubSeq(text, 1, Len(part)) = part

\* ---- C1
\* C1: in every run of Machine::new the collector calls come in three ordered
\* phases: no call of an earlier phase follows one of a later phase (device
\* reads, then ps inspections, then nproc, then free); when the first
\* inspection has started every device has been read; when the first host
\* query has started every resident pid entry has been inspected.
C1_PhasesOrdered ==
    /\ \A i, j \in DOMAIN calls : i < j => Phase(calls[i]) <= Phase(calls[j])
    /\ CallsOf({"ps"}) # <<>> =>
          /\ Len(CallsOf({"device"})) = num_gpus
          /\ \A k \in DOMAIN CallsOf({"device"}) : CallsOf({"device"})[k].res = "ok"
    /\ CallsOf({"nproc", "free"}) # <<>> =>
          /\ Len(CallsOf({"device"})) = num_gpus
          /\ Len(CallsOf({"ps"})) = PidEntries(gpus)
          /\ \A k \in DOMAIN CallsOf({"ps"}) : CallsOf({"ps"})[k].res = "ok"
    /\ CallsOf({"free"}) # <<>> => Len(CallsOf({"nproc"})) = 1

\* A finished run that read two devices, inspected at least two pids and made
\* both host queries.
C1_Witness ==
    /\ pc = "done"
    /\ Len(CallsOf({"device"})) = 2
    /\ Len(CallsOf({"ps"})) >= 2
    /\ Len(CallsOf({"nproc"})) = 1
    /\ Len(CallsOf({"free"})) = 1

\* ---- C2
\* The elements of a set of pids in increasing order.
RECURSIVE Ascending(_)
Ascending(S) ==
    IF S = {} THEN <<>>
    ELSE LET m == CHOOSE x \in S : \A y \in S : x <= y
         IN << m >> \o Ascending(S \ {m})

\* The pids of all devices read: each distinct pid once.
AllResidentPids ==
    UNION { { gpus[i].compute_process_pids[k] : k \in DOMAIN gpus[i].compute_process_pids } :
            i \in DOMAIN gpus }

\* C2: once every inspection is over, the pids inspected are the distinct
\* resident pids, each exactly once, in increasing pid order, and the report
\* holds exactly one process row per distinct pid.
C2_EachPidOnceAscending ==
    pc \in {"free", "display_gpu", "display_cpu", "done"} =>
        /\ [k \in DOMAIN CallsOf({"ps"}) |-> CallsOf({"ps"})[k].arg] = Ascending(AllResidentPids)
        /\ [k \in DOMAIN processes |-> processes[k].pid] = Ascending(AllResidentPids)

\* ---- C3
\* C3: when a pid discovered on a device has exited before its inspection, the
\* run is not ended by it: the pid is dropped and the run goes on.
C3_GoneProcessDropped ==
    (\E k \in DOMAIN calls : calls[k].op = "ps" /\ calls[k].res = "gone") =>
        pc # "panicked"

\* ---- C4
\* C4: when a host query fails to run or its output fails to parse, the run is
\* not ended by it: the report is built without the host snapshot.
C4_HostFailureDegrades ==
    (\E k \in DOMAIN calls : calls[k].op \in {"nproc", "free"} /\ calls[k].res # "ok") =>
        pc # "panicked"

\* ---- C5
\* C5: when opening the monitoring session fails the run has ended in a panic
\* there, and no device was read, no process inspected, no host query made and
\* nothing written to standard output.
C5_InitFailureIsFatal ==
    nvml = "failed" =>
        /\ pc = "panicked"
        /\ panic_at = "Nvml::init"
        /\ calls = <<>>
        /\ gpus = <<>>
        /\ processes = <<>>
        /\ stdout = <<>>

\* The session failed to open.
C5_Witness == nvml = "failed" /\ pc = "panicked"

\* ---- C6
\* C6: at either verbosity, after display_cpu_stats an empty process list has
\* given exactly one informational line, printed last, and no process table; a
\* non-empty list has given exactly one process table, with a row per process,
\* and no informational line.
C6_EmptyListGivesOneLine ==
    pc = "done" =>
        IF processes = <<>>
        THEN /\ Len(Printed("process_table")) = 0
             /\ Len(Printed("no_processes")) = 1
             /\ stdout[Len(stdout)].text = "No compute processes running on GPU"
             /\ stdout[Len(stdout)].rows = <<>>
        ELSE /\ Len(Printed("no_processes")) = 0
             /\ Len(Printed("process_table")) = 1
             /\ stdout[Len(stdout)].tag = "process_table"
             /\ Len(stdout[Len(stdout)].rows) >= Len(processes)

\* A terse run over a machine with a device and no compute process.
C6_Witness ==
    /\ pc = "done"
    /\ ~args.verbose
    /\ num_gpus >= 1
    /\ processes = <<>>
    /\ Len(Printed("no_processes")) = 1

\* ---- C7
\* The devices of the report that are throttling, in report order.
Throttled == SelectSeq(gpus, LAMBDA g : g.throttling # {})

ThrottlePrefix(idx) == "GPU " \o ToString(idx) \o " is throttling due to: "

\* The throttle lines printed for the device with this index.
LinesOf(idx) ==
    { k \in DOMAIN Printed("throttle") :
         StartsWith(Printed("throttle")[k].text, ThrottlePrefix(idx)) }

\* C7 as stated: in the bottleneck section every device has as many lines as
\* it has set throttle flags (none when the set is empty).
C7_OneLinePerSetFlag ==
    (pc = "done" /\ args.verbose) =>
        \A i \in DOMAIN gpus :
            Cardinality(LinesOf(gpus[i].idx)) = Cardinality(gpus[i].throttling)

\* C7, amended: the bottleneck section, which only the verbose render prints,
\* holds no line for a device whose throttle set is empty and exactly one line
\* for a device whose set is not, naming every set flag and no other, with
\* the devices in ascending index order.
C7_OneLinePerThrottlingDevice ==
    pc \in {"display_cpu", "done"} =>
        IF ~args.verbose
        THEN Printed("throttle") = <<>>
        ELSE /\ Len(Printed("throttle")) = Len(Throttled)
             /\ \A i \in DOMAIN gpus :
                   /\ gpus[i].idx = i - 1
                   /\ Cardinality(LinesOf(gpus[i].idx)) =
                         (IF gpus[i].throttling = {} THEN 0 ELSE 1)
             /\ \A k \in DOMAIN Throttled :
                   /\ StartsWith(Printed("throttle")[k].text, ThrottlePrefix(Throttled[k].idx))
                   /\ \A f \in DOMAIN ThrottleFlags :
                         Contains(Printed("throttle")[k].text, ThrottleFlags[f])
                            <=> ThrottleFlags[f] \in Throttled[k].throttling
             /\ \A k \in 1..(Len(Throttled) - 1) : Throttled[k].idx < Throttled[k + 1].idx

\* A verbose run over a device with no throttle flag and one with two.
C7_Witness ==
    /\ pc = "done"
    /\ args.verbose
    /\ \E i, j \in DOMAIN gpus :
          /\ gpus[i].throttling = {}
          /\ Cardinality(gpus[j].throttling) = 2
          /\ Cardinality(LinesOf(gpus[j].idx)) = 1

\* ---- C8
\* The cells of a process row before any truncation.
RawCells(p) == << ToString(p.pid), p.user, p.utilizations, p.elapsed, p.command >>

\* C8 as stated: every cell of the terse device and process tables appears in
\* the verbose tables, one row further down (under the header row the verbose
\* render adds), with the same value.
C8_SameCellValues ==
    pc = "done" =>
        /\ \A r \in DOMAIN GpuTable(gpus, FALSE) :
              \A c \in DOMAIN GpuTable(gpus, FALSE)[r] :
                 GpuTable(gpus, FALSE)[r][c] = GpuTable(gpus, TRUE)[r + 1][c]
        /\ \A r \in DOMAIN ProcessTable(processes, FALSE) :
              \A c \in DOMAIN ProcessTable(processes, FALSE)[r] :
                 ProcessTable(processes, FALSE)[r][c] = ProcessTable(processes, TRUE)[r + 1][c]

\* C8, amended: the verbose render adds the header row and five columns to
\* the device table and the header row to the process table; every terse
\* device cell has the same value in the verbose table; a process cell at most
\* 20 characters wide has the same value in both, and a wider one is shown cut
\* to its first 17 characters and "..." by the terse render while the verbose
\* render shows it whole up to 75 characters (beyond that, its first 72 and
\* "...").  The table printed is the one of the run's verbosity.
C8_VerboseOnlyAdds ==
    pc = "done" =>
        LET terseG == GpuTable(gpus, FALSE)
            fullG == GpuTable(gpus, TRUE)
            terseP == ProcessTable(processes, FALSE)
            fullP == ProcessTable(processes, TRUE)
        IN /\ Printed("gpu_table")[1].rows = (IF args.verbose THEN fullG ELSE terseG)
           /\ processes # <<>> =>
                 Printed("process_table")[1].rows = (IF args.verbose THEN fullP ELSE terseP)
           /\ Len(fullG) = Len(terseG) + 1
           /\ Len(terseG) = Len(gpus)
           /\ \A r \in DOMAIN terseG :
                 /\ Len(terseG[r]) = 6
                 /\ Len(fullG[r + 1]) = 11
                 /\ \A c \in DOMAIN terseG[r] : terseG[r][c] = fullG[r + 1][c]
           /\ Len(fullP) = Len(terseP) + 1
           /\ Len(terseP) = Len(processes)
           /\ \A r \in DOMAIN terseP :
                 /\ Len(terseP[r]) = 5
                 /\ Len(fullP[r + 1]) = 5
                 /\ \A c \in 1..5 :
                       LET raw == RawCells(processes[r])[c]
                       IN /\ fullP[r + 1][c] =
                                (IF Len(raw) <= 75 THEN raw ELSE SubSeq(raw, 1, 72) \o "...")
                          /\ terseP[r][c] =
                                (IF Len(raw) <= 20 THEN raw ELSE SubSeq(raw, 1, 17) \o "...")

\* A verbose run that printed a process whose command is wider than 20
\* characters and one whose command is wider than 75.
C8_Witness ==
    /\ pc = "done"
    /\ args.verbose
    /\ \E r, q \in DOMAIN processes :
          /\ Len(processes[r].command) > 20
          /\ Len(processes[r].command) <= 75
          /\ Len(processes[q].command) > 75
          /\ Printed("process_table")[1].rows[r + 1][5] = processes[r].command

\* ---- C9
\* C9: a run started with the disk flag or the network flag makes no collector
\* call and writes nothing to standard output.
C9_DiskNetworkFatal ==
    (args.disk \/ args.network) => (calls = <<>> /\ stdout = <<>>)

\* ---- C10
\* The sum of a list of readings.
RECURSIVE Total(_)
Total(readings) ==
    IF readings = <<>> THEN 0 ELSE Head(readings) + Total(Tail(readings))

\* C10 as stated: with n >= 1 fans the fan field is the whole percent nearest
\* to the mean of the n readings (either neighbour when the mean lies half way
\* between two); with no fan it is "N/A" and no reading is requested.
C10_FanIsNearestToMean ==
    fan # "unread" =>
        LET n == Len(fan_speeds)
        IN IF n = 0
           THEN fan = "N/A" /\ fan_requests = <<>>
           ELSE \E f \in 0..100 :
                   /\ fan = ToString(f) \o "%"
                   /\ 2 * (n * f - Total(fan_speeds)) <= n
                   /\ 2 * (Total(fan_speeds) - n * f) <= n

\* C10, amended: with n >= 1 fans, each fan is asked for its reading once, in
\* index order, and the fan field is the mean of the n readings rounded down
\* to a whole percent; with no fan it is "N/A" and no reading is requested.
C10_FanIsMeanRoundedDown ==
    fan # "unread" =>
        LET n == Len(fan_speeds)
        IN IF n = 0
           THEN fan = "N/A" /\ fan_requests = <<>>
           ELSE /\ fan_requests = [i \in 1..n |-> i - 1]
                /\ \E f \in 0..100 :
                      /\ fan = ToString(f) \o "%"
                      /\ n * f <= Total(fan_speeds)
                      /\ Total(fan_speeds) < n * (f + 1)

\* Three fans whose mean is not a whole percent have been read.
C10_Witness ==
    /\ fan # "unread"
    /\ Len(fan_speeds) = 3
    /\ Total(fan_speeds) % 3 = 2
    /\ Len(fan_requests) = 3

====
